---------------------------- MODULE Spec2Model ----------------------------
(***************************************************************************)
(* Model of the two release-tag utilities of metaplay/cli:                 *)
(*   prune_old_dev_tags.py  (the Pruner)                                   *)
(*   resolve_dev_version.py (the Next-Version Resolver)                    *)
(*                                                                         *)
(* A tag is a string, modelled as a sequence of one-character strings, so  *)
(* that regular-expression matching, str.startswith, int() and f-string    *)
(* formatting are computed character by character.                         *)
(***************************************************************************)
EXTENDS Integers, Sequences, FiniteSets, TLC

VARIABLES
    tags,            \* refs/tags of the local repository (set of strings)
    remote_tags,     \* tags on the remote "origin"
    p_pc,            \* Pruner position: idle / local / remote / done
    p_dry_run,       \* Pruner: args.dry_run
    tags_to_delete,  \* Pruner: the list built in step 4
    p_idx,           \* Pruner: index of the loop of step 5 (1-based)
    p_exit,          \* Pruner: process exit status (None while running)
    p_msg,           \* Pruner: last line printed to stdout
    p_tags0,         \* history: the tag set before any job ran
    p_log,           \* history: the deletion subprocesses run, in order
    r_pc,            \* Resolver position: idle / done
    r_exit,          \* Resolver: process exit status
    r_latest_tag,    \* Resolver: latest_tag after the correction step
    r_stdout,        \* Resolver: KEY=VALUE lines printed to stdout
    r_envfile,       \* Resolver: lines appended to the GITHUB_ENV file
    r_tags0,         \* history: the version-sorted tag list the Resolver read
    input,           \* parse_tag on its own: the string handed to it
    parsed           \* parse_tag on its own: what it returned

vars == <<tags, remote_tags, p_pc, p_dry_run, tags_to_delete, p_idx, p_exit,
          p_msg, p_tags0, p_log, r_pc, r_exit, r_latest_tag, r_stdout,
          r_envfile, r_tags0, input, parsed>>

prunerVars == <<p_pc, p_dry_run, tags_to_delete, p_idx, p_exit, p_msg,
                p_tags0, p_log>>
resolverVars == <<r_pc, r_exit, r_latest_tag, r_stdout, r_envfile, r_tags0>>
parserVars == <<input, parsed>>

-----------------------------------------------------------------------------
(* Bounds of the model *)

\* Largest dev number N of the tags MAJOR.MINOR.PATCH-dev.N in the universe.
MaxDev == 2
\* Largest number of tags in the repository at the start.
MaxTags == 4
\* Largest number of tokens of a string handed to parse_tag on its own.
MaxTokens == 7

-----------------------------------------------------------------------------
(* Characters and strings *)

Digits == {"0", "1", "2", "3", "4", "5", "6", "7", "8", "9"}

IsDigit(c) == c \in Digits

\* int() of one decimal digit
DigitVal(c) ==
    CASE c = "0" -> 0 [] c = "1" -> 1 [] c = "2" -> 2 [] c = "3" -> 3
      [] c = "4" -> 4 [] c = "5" -> 5 [] c = "6" -> 6 [] c = "7" -> 7
      [] c = "8" -> 8 [] c = "9" -> 9

DigitChar(d) == <<"0", "1", "2", "3", "4", "5", "6", "7", "8", "9">>[d + 1]

\* The byte value of a character (ASCII), as strcmp and versioncmp read it.
Ord(c) ==
    CASE c = "-" -> 45 [] c = "." -> 46
      [] c \in Digits -> 48 + DigitVal(c)
      [] c = "c" -> 99 [] c = "d" -> 100 [] c = "e" -> 101
      [] c = "r" -> 114 [] c = "v" -> 118

\* Python int(s) of a run of decimal digits
RECURSIVE StrToInt(_)
StrToInt(s) ==
    IF s = <<>> THEN 0
    ELSE StrToInt(SubSeq(s, 1, Len(s) - 1)) * 10 + DigitVal(s[Len(s)])

\* Python str(n) / f"{n}" of a non-negative integer
RECURSIVE IntToStr(_)
IntToStr(n) ==
    IF n < 10 THEN <<DigitChar(n)>>
    ELSE IntToStr(n \div 10) \o <<DigitChar(n % 10)>>

\* The suffix of s starting at position i (s[i-1:] in Python terms)
Tail_(s, i) == SubSeq(s, i, Len(s))

\* str.startswith
StartsWith(s, p) == Len(p) <= Len(s) /\ SubSeq(s, 1, Len(p)) = p

\* str.split('.')
RECURSIVE Split(_)
Split(s) ==
    IF \A i \in 1..Len(s) : s[i] # "."
    THEN <<s>>
    ELSE LET i == CHOOSE k \in 1..Len(s) :
                      s[k] = "." /\ \A j \in 1..(k - 1) : s[j] # "."
         IN  <<SubSeq(s, 1, i - 1)>> \o Split(Tail_(s, i + 1))

\* Length of the longest run of digits of s that starts at position i:
\* what a greedy [0-9]+ or \d+ consumes there.
RECURSIVE DigitRun(_, _)
DigitRun(s, i) ==
    IF i <= Len(s) /\ IsDigit(s[i]) THEN 1 + DigitRun(s, i + 1) ELSE 0

DevLit == <<"-", "d", "e", "v", ".">>
NoMatch == [matched |-> FALSE]

\* The common head  ^\d+\.\d+\.\d+  of all four regular expressions, given
\* the lengths n1, n2, n3 of the three greedy digit runs: the three groups
\* and what follows them.  Each \d+ is followed by a non-digit, so
\* backtracking to a shorter run never helps.
MatchRuns(s, n1, n2, n3) ==
    IF /\ n1 > 0
       /\ n1 + 1 <= Len(s) /\ s[n1 + 1] = "."
       /\ n2 > 0
       /\ n1 + n2 + 2 <= Len(s) /\ s[n1 + n2 + 2] = "."
       /\ n3 > 0
    THEN [matched |-> TRUE,
          major |-> SubSeq(s, 1, n1),
          minor |-> SubSeq(s, n1 + 2, n1 + n2 + 1),
          patch |-> SubSeq(s, n1 + n2 + 3, n1 + n2 + n3 + 2),
          rest  |-> Tail_(s, n1 + n2 + n3 + 3)]
    ELSE NoMatch
MatchXYZ2(s, n1, n2) == MatchRuns(s, n1, n2, DigitRun(s, n1 + n2 + 3))
MatchXYZ1(s, n1) == MatchXYZ2(s, n1, DigitRun(s, n1 + 2))
MatchXYZ(s) == MatchXYZ1(s, DigitRun(s, 1))

\* rest is -dev\.\d+ up to its end; n is the length of the digit run after
\* the literal
IsDevSuffix(rest, n) ==
    /\ StartsWith(rest, DevLit)
    /\ n > 0
    /\ n = Len(rest) - Len(DevLit)

-----------------------------------------------------------------------------
(* prune_old_dev_tags.py: VERSION_RE and parse_tag *)

\* Python's None, and a present optional value x, as sequences so that both
\* compare with each other.
None == <<>>
Some(x) == <<x>>

Groups(m, dev) ==
    [matched |-> TRUE, major |-> m.major, minor |-> m.minor,
     patch |-> m.patch, dev |-> dev]

\* VERSION_RE.match(tag): ^(\d+)\.(\d+)\.(\d+)(?:-dev\.(\d+))?$
\* m is the match of the head, n the length of the digit run after -dev.
VersionReGroups(m, n) ==
    IF ~m.matched THEN NoMatch
    ELSE IF m.rest = <<>> THEN Groups(m, None)
    ELSE IF IsDevSuffix(m.rest, n)
         THEN Groups(m, Some(Tail_(m.rest, Len(DevLit) + 1)))
    ELSE NoMatch
VersionReTail(m) ==
    VersionReGroups(m, IF m.matched THEN DigitRun(m.rest, Len(DevLit) + 1) ELSE 0)
\* A mutant of VERSION_RE: the pattern without its closing $ (a match of a
\* version at the start of the tag instead of a full match).
UnanchoredGroups(m, n) ==
    IF ~m.matched THEN NoMatch
    ELSE IF StartsWith(m.rest, DevLit) /\ n > 0
         THEN Groups(m, Some(SubSeq(m.rest, Len(DevLit) + 1, Len(DevLit) + n)))
    ELSE Groups(m, None)
VERSION_RE_Unanchored2(m) ==
    UnanchoredGroups(m, IF m.matched THEN DigitRun(m.rest, Len(DevLit) + 1) ELSE 0)
VERSION_RE_Unanchored(tag) == VERSION_RE_Unanchored2(MatchXYZ(tag))

VERSION_RE(tag) == VersionReTail(MatchXYZ(tag))

\* parse_tag(tag): None, or the tuple (major, minor, patch, dev_num) with
\* dev_num None or Some(int); m is VERSION_RE.match(tag)
ParsedTuple(m) ==
    IF ~m.matched THEN None
    ELSE <<StrToInt(m.major), StrToInt(m.minor), StrToInt(m.patch),
           IF m.dev # None THEN Some(StrToInt(m.dev[1])) ELSE None>>
parse_tag(tag) == ParsedTuple(VERSION_RE(tag))

-----------------------------------------------------------------------------
(* The git tag listings both scripts read.  The orders are git's, not the   *)
(* scripts': "git tag --list" lists refnames in byte order, and             *)
(* "git tag --sort=v:refname" orders them by git's versioncmp(), the        *)
(* strverscmp state machine (no versionsort.suffix is configured).          *)

NUL == "NUL"
CharAt(s, i) == IF i <= Len(s) THEN s[i] ELSE NUL
OrdAt(s, i) == IF i <= Len(s) THEN Ord(s[i]) ELSE 0

\* strcmp(a, b) < 0
StrLess(a, b) ==
    \E k \in 1..(Len(b)) :
        /\ \A j \in 1..(k - 1) : j <= Len(a) /\ a[j] = b[j]
        /\ OrdAt(a, k) < OrdAt(b, k)

\* versioncmp: the class of a character, (c == '0') + (isdigit(c) != 0)
VClass(c) == IF c = "0" THEN 2 ELSE IF c \in Digits THEN 1 ELSE 0

S_N == 0
S_I == 3
S_F == 6
S_Z == 9
V_CMP == 2
V_LEN == 3

next_state == << S_N, S_I, S_Z,
                 S_N, S_I, S_I,
                 S_N, S_F, S_F,
                 S_N, S_F, S_Z >>

result_type ==
    << V_CMP, V_CMP, V_CMP, V_CMP, V_LEN, V_CMP, V_CMP, V_CMP, V_CMP,
       V_CMP, -1,    -1,    1,     V_LEN, V_LEN, 1,     V_LEN, V_LEN,
       V_CMP, V_CMP, V_CMP, V_CMP, V_CMP, V_CMP, V_CMP, V_CMP, V_CMP,
       V_CMP, 1,     1,     -1,    V_CMP, V_CMP, -1,    V_CMP, V_CMP >>

\* versioncmp: the result at the first difference diff, of result type res,
\* with r1 and r2 the lengths of the digit runs after it
VersionCmpResult(diff, res, r1, r2) ==
    IF res = V_CMP THEN diff
    ELSE IF res = V_LEN
         THEN IF r1 > r2 THEN 1 ELSE IF r2 > r1 THEN -1 ELSE diff
    ELSE res

\* versioncmp(s1, s2) from position i on, all earlier characters equal;
\* state already counts the class of s1[i].  Negative, zero or positive.
RECURSIVE VersionCmpFrom(_, _, _, _)
VersionCmpFrom(s1, s2, i, state) ==
    IF OrdAt(s1, i) = OrdAt(s2, i)
    THEN IF i > Len(s1) THEN 0
         ELSE VersionCmpFrom(s1, s2, i + 1,
                  next_state[state + 1] + VClass(CharAt(s1, i + 1)))
    ELSE VersionCmpResult(OrdAt(s1, i) - OrdAt(s2, i),
                          result_type[state * 3 + VClass(CharAt(s2, i)) + 1],
                          DigitRun(s1, i + 1), DigitRun(s2, i + 1))

versioncmp(s1, s2) == VersionCmpFrom(s1, s2, 1, S_N + VClass(CharAt(s1, 1)))

VersionLess(a, b) == versioncmp(a, b) < 0

\* The lines "git tag --list" prints for the tag set S
RECURSIVE GitTagList(_)
GitTagList(S) ==
    IF S = {} THEN <<>>
    ELSE LET m == CHOOSE x \in S : \A y \in S \ {x} : StrLess(x, y)
         IN  <<m>> \o GitTagList(S \ {m})

\* The lines "git tag --sort=v:refname" prints for the tag set S
RECURSIVE GitTagSortVersion(_)
GitTagSortVersion(S) ==
    IF S = {} THEN <<>>
    ELSE LET m == CHOOSE x \in S : \A y \in S \ {x} : VersionLess(x, y)
         IN  <<m>> \o GitTagSortVersion(S \ {m})

\* The elements of a list
Range(seq) == {seq[i] : i \in 1..Len(seq)}

\* [x for x in seq if x in keep], for a list of distinct elements
RECURSIVE Filter(_, _)
Filter(seq, keep) ==
    IF seq = <<>> THEN <<>>
    ELSE (IF seq[1] \in keep THEN <<seq[1]>> ELSE <<>>)
             \o Filter(Tail(seq), keep)

-----------------------------------------------------------------------------
(* prune_old_dev_tags.py: main, steps 2 to 4 *)

\* A mutant of KeyLess: the versions compared as strings, so that 10.0.0
\* is below 2.0.1.
KeyLessLexical(a, b) ==
    StrLess(IntToStr(a[1]) \o <<".">> \o IntToStr(a[2]) \o <<".">> \o IntToStr(a[3]),
            IntToStr(b[1]) \o <<".">> \o IntToStr(b[2]) \o <<".">> \o IntToStr(b[3]))

\* Python's order of tuples (major, minor, patch): a < b
KeyLess(a, b) ==
    \/ a[1] < b[1]
    \/ a[1] = b[1] /\ a[2] < b[2]
    \/ a[1] = b[1] /\ a[2] = b[2] /\ a[3] < b[3]

\* sorted(official_versions)
RECURSIVE sorted_keys(_)
sorted_keys(S) ==
    IF S = {} THEN <<>>
    ELSE LET m == CHOOSE x \in S : \A y \in S \ {x} : KeyLess(x, y)
         IN  <<m>> \o sorted_keys(S \ {m})

ver_key(parsed_) == <<parsed_[1], parsed_[2], parsed_[3]>>

\* official_versions after the loop of step 2 over the list tag_list
OfficialKeysAmong(parsed_tags) ==
    {ver_key(p) : p \in {q \in parsed_tags : q # None /\ q[4] = None}}
official_versions(tag_list) ==
    OfficialKeysAmong({parse_tag(tag_list[i]) : i \in 1..Len(tag_list)})

\* dev_tags_by_version.setdefault(key, []).append(tag) on an insertion-ordered
\* dict, modelled as a list of [key, tags] entries
DictAppend(d, key, tag) ==
    IF \E i \in 1..Len(d) : d[i].key = key
    THEN LET i == CHOOSE k \in 1..Len(d) : d[k].key = key
         IN  [d EXCEPT ![i].tags = Append(@, tag)]
    ELSE Append(d, [key |-> key, tags |-> <<tag>>])

\* One pass of the loop of step 2 for tag, parsed as p, on the dict d
DevTagStep(d, p, tag) ==
    IF p = None \/ p[4] = None THEN d
    ELSE DictAppend(d, ver_key(p), tag)

\* dev_tags_by_version after the loop of step 2 over the first n tags
RECURSIVE dev_tags_by_version(_, _)
dev_tags_by_version(tag_list, n) ==
    IF n = 0 THEN <<>>
    ELSE DevTagStep(dev_tags_by_version(tag_list, n - 1),
                    parse_tag(tag_list[n]), tag_list[n])

\* Step 3: sorted_official[-2:] if len(sorted_official) >= 2 else sorted_official
latest_two(sorted_official) ==
    IF Len(sorted_official) >= 2
    THEN SubSeq(sorted_official, Len(sorted_official) - 1, Len(sorted_official))
    ELSE sorted_official

\* Step 4: the loop over dev_tags_by_version.items(), entries 1..n
RECURSIVE collect_tags_to_delete(_, _, _)
collect_tags_to_delete(d, keep, n) ==
    IF n = 0 THEN <<>>
    ELSE collect_tags_to_delete(d, keep, n - 1)
             \o (IF d[n].key \in Range(keep) THEN <<>> ELSE d[n].tags)

tags_to_delete_of(d, keep) == collect_tags_to_delete(d, keep, Len(d))

\* tags_to_delete for the listing tag_list (official_versions non-empty)
compute_tags_to_delete(tag_list) ==
    tags_to_delete_of(dev_tags_by_version(tag_list, Len(tag_list)),
                      latest_two(sorted_keys(official_versions(tag_list))))

-----------------------------------------------------------------------------
(* resolve_dev_version.py *)

\* any_version_re.match(tag): ^[0-9]+\.[0-9]+\.[0-9]+.*$
any_version_re(tag) == MatchXYZ(tag).matched

\* official_re.match(tag): ^[0-9]+\.[0-9]+\.[0-9]+$
OfficialReTail(m) == m.matched /\ m.rest = <<>>
official_re(tag) == OfficialReTail(MatchXYZ(tag))

\* dev_re.match(tag): ^([0-9]+\.[0-9]+\.[0-9]+)-dev\.([0-9]+)$
\* m is the match of the head, n the length of the digit run after -dev.
DevReGroups(tag, m, n) ==
    IF m.matched /\ IsDevSuffix(m.rest, n)
    THEN [matched |-> TRUE,
          group1 |-> SubSeq(tag, 1, Len(tag) - Len(m.rest)),
          group2 |-> Tail_(m.rest, Len(DevLit) + 1)]
    ELSE NoMatch
DevReTail(tag, m) ==
    DevReGroups(tag, m,
                IF m.matched THEN DigitRun(m.rest, Len(DevLit) + 1) ELSE 0)
dev_re(tag) == DevReTail(tag, MatchXYZ(tag))

\* get_git_version_tags(), the git call having succeeded on the tag set S
get_git_version_tags(S) ==
    Filter(GitTagSortVersion(S), {t \in S : any_version_re(t)})

\* official_tags = [tag for tag in version_tags if official_re.match(tag)]
official_tags(version_tags) ==
    Filter(version_tags, {t \in Range(version_tags) : official_re(t)})

\* Lines 48-50: latest_tag after the correction step
correct_latest_tag(latest_tag, latest_official_tag) ==
    IF StartsWith(latest_tag, latest_official_tag)
    THEN latest_official_tag ELSE latest_tag

\* Whether Python's int(s) accepts s (over the model's alphabet: a
\* non-empty run of digits); otherwise it raises ValueError.
IntValid(s) == s # <<>> /\ \A i \in 1..Len(s) : IsDigit(s[i])

DevOne == DevLit \o <<"1">>

\* Python's ValueError ending the script, as a value no tag equals
Crash == <<"ValueError">>

\* Lines 56-60: the branch of a latest tag that dev_re matches
next_dev_tag_of_dev(base_version, dev_num) ==
    base_version \o DevLit \o IntToStr(dev_num + 1)

\* Lines 62-65: the other branch, on latest_tag.split('.')[0:3]
next_dev_tag_of_release(major, minor, patch) ==
    IF ~IntValid(patch) THEN Crash
    ELSE major \o <<".">> \o minor \o <<".">>
             \o IntToStr(StrToInt(patch) + 1) \o DevOne

\* Lines 53-66: next_dev_tag for latest_tag, or Crash when int(patch) raises
NextDevTagBranch(dev_match, parts) ==
    IF dev_match.matched
    THEN next_dev_tag_of_dev(dev_match.group1, StrToInt(dev_match.group2))
    ELSE next_dev_tag_of_release(parts[1], parts[2], parts[3])
next_dev_tag(latest_tag) == NextDevTagBranch(dev_re(latest_tag), Split(latest_tag))

\* The whole script on the tag set S, the git call having succeeded:
\* how it ends and what it computed on the way.
Resolved(latest_official_tag, latest_tag, next) ==
    [status |-> IF next = Crash THEN "crash" ELSE "ok",
     latest_official_tag |-> latest_official_tag,
     latest_tag |-> latest_tag,
     next_dev_tag |-> next]
ResolveLatest(latest_official_tag, latest_tag) ==
    Resolved(latest_official_tag, latest_tag, next_dev_tag(latest_tag))
ResolveOfficial(version_tags, officials) ==
    IF officials = <<>> THEN [status |-> "no official tag"]
    ELSE ResolveLatest(officials[Len(officials)],
                       correct_latest_tag(version_tags[Len(version_tags)],
                                          officials[Len(officials)]))
ResolveList(version_tags) ==
    IF version_tags = <<>> THEN [status |-> "no version tags"]
    ELSE ResolveOfficial(version_tags, official_tags(version_tags))
Resolve(S) == ResolveList(get_git_version_tags(S))

-----------------------------------------------------------------------------
(* The tags a repository may hold *)

FormatOfficial(key) ==
    IntToStr(key[1]) \o <<".">> \o IntToStr(key[2]) \o <<".">> \o IntToStr(key[3])
FormatDev(key, n) == FormatOfficial(key) \o DevLit \o IntToStr(n)

\* Lineages with an official release tag: 2.0.1 is a string prefix of
\* 2.0.10, and 10.0.0 is above both numerically but below both in byte order.
OfficialLineages == {<<2, 0, 1>>, <<2, 0, 10>>, <<10, 0, 0>>}

\* Lineages with dev tags: 2.0.2 is the lineage the Resolver opens after
\* the release 2.0.1.
DevLineages == {<<2, 0, 1>>, <<2, 0, 2>>, <<2, 0, 10>>}

\* Tags that are neither MAJOR.MINOR.PATCH nor MAJOR.MINOR.PATCH-dev.N
OtherTags ==
    { <<"2", ".", "0", ".", "2", "-", "r", "c", ".", "1">>,
      <<"2", ".", "0", ".", "2", ".", "4">>,
      <<"v", "2", ".", "0", ".", "1">> }

Universe ==
    {FormatOfficial(k) : k \in OfficialLineages}
        \cup {FormatDev(k, n) : k \in DevLineages, n \in 1..MaxDev}
        \cup OtherTags

\* Exit statuses of a failing git subprocess
GitFailureCodes == {1, 128}

\* The exit status of a process: None while it runs, Exited(rc) once it ended
Exited(rc) == Some(rc)

\* The pieces the strings handed to parse_tag on its own are made of
Tokens ==
    { <<"1">>, <<"2", "0">>, <<".">>, DevLit, <<"-", "r", "c", ".">>, <<"v">> }

NotParsed == <<"not parsed">>

-----------------------------------------------------------------------------
(* State machine *)

Init ==
    /\ tags \in {S \in SUBSET Universe : Cardinality(S) <= MaxTags}
    /\ remote_tags = tags
    /\ p_pc = "idle"
    /\ p_dry_run = FALSE
    /\ tags_to_delete = <<>>
    /\ p_idx = 0
    /\ p_exit = None
    /\ p_msg = ""
    /\ p_tags0 = tags
    /\ p_log = <<>>
    /\ r_pc = "idle"
    /\ r_exit = None
    /\ r_latest_tag = None
    /\ r_stdout = <<>>
    /\ r_envfile = <<>>
    /\ r_tags0 = <<>>
    /\ input = <<>>
    /\ parsed = NotParsed

FailureMessage(args) ==
    CASE args = "tag --list" -> "git tag --list failed"
      [] args = "tag -d" -> "git tag -d failed"
      [] args = "push --delete origin" -> "git push --delete origin failed"

\* A mutant of run_git_failure: the failure is reported and the caller goes
\* on as after a success.
run_git_failure_Ignored(args, rc) ==
    /\ p_exit' = IF p_pc = "remote" /\ p_idx = Len(tags_to_delete)
                 THEN Exited(0) ELSE None
    /\ p_pc' = IF p_pc = "local" THEN "remote"
               ELSE IF p_idx = Len(tags_to_delete) THEN "done" ELSE "local"
    /\ p_idx' = IF p_pc = "remote" THEN p_idx + 1 ELSE p_idx
    /\ p_msg' = FailureMessage(args)

\* run_git, lines 31-33: a non-zero return code rc of "git <args>" is
\* reported and ends the process with rc
run_git_failure(args, rc) ==
    /\ p_exit' = Exited(rc)
    /\ p_pc' = "done"
    /\ p_idx' = p_idx
    /\ p_msg' = FailureMessage(args)

\* main, line 49: "git tag --list" fails
PrunerListFails(dry_run, rc) ==
    /\ p_pc = "idle" /\ r_pc = "idle"
    /\ p_dry_run' = dry_run
    /\ run_git_failure("tag --list", rc)
    /\ UNCHANGED <<tags, remote_tags, tags_to_delete, p_tags0, p_log>>
    /\ UNCHANGED resolverVars
    /\ UNCHANGED parserVars

\* A mutant of reaches_deletion: dry_run is not looked at.
reaches_deletion_Always(dry_run, to_delete) == to_delete # <<>>

\* Lines 96-106: whether main goes on to step 5 with this list
reaches_deletion(dry_run, to_delete) == to_delete # <<>> /\ ~dry_run

\* main, lines 49-106, the listing having succeeded on the tag set S:
\* steps 1 to 4 and the report; how main goes on from there.
Returned(msg, to_delete) ==
    [msg |-> msg, tags_to_delete |-> to_delete, pc |-> "done",
     exit |-> Exited(0), idx |-> 0]
main_from_step_4(to_delete, dry_run) ==
    IF to_delete = <<>>
    THEN Returned("No dev tags need to be deleted.", <<>>)
    ELSE IF ~reaches_deletion(dry_run, to_delete)
    THEN Returned("Dry-run mode: no tags have been deleted.", to_delete)
    ELSE [msg |-> "Dev tags to delete:", tags_to_delete |-> to_delete,
          pc |-> "local", exit |-> None, idx |-> 1]
main_from_step_2(tag_list, dry_run) ==
    IF tag_list = <<>>
    THEN Returned("No tags found.", <<>>)
    ELSE IF official_versions(tag_list) = {}
    THEN Returned("No official release tags found (x.y.z). Nothing to do.",
                  <<>>)
    ELSE main_from_step_4(compute_tags_to_delete(tag_list), dry_run)
main_steps_1_to_4(S, dry_run) == main_from_step_2(GitTagList(S), dry_run)

\* main, lines 49-106: "git tag --list" succeeds.  A behaviour is one
\* sequence of maintenance jobs: at most one Pruner run, then at most one
\* Resolver run (which changes no tag).
PrunerStart(dry_run) ==
    /\ p_pc = "idle" /\ r_pc = "idle"
    /\ p_dry_run' = dry_run
    /\ \E out \in {main_steps_1_to_4(tags, dry_run)} :
           /\ p_msg' = out.msg
           /\ tags_to_delete' = out.tags_to_delete
           /\ p_pc' = out.pc
           /\ p_exit' = out.exit
           /\ p_idx' = out.idx
    /\ UNCHANGED <<tags, remote_tags, p_tags0, p_log>>
    /\ UNCHANGED resolverVars
    /\ UNCHANGED parserVars

LogEntry(op, tag, rc) == [op |-> op, tag |-> tag, rc |-> rc]

\* Line 111: run_git(["tag", "-d", t]) succeeds
PrunerDeleteLocal ==
    /\ p_pc = "local"
    /\ LET t == tags_to_delete[p_idx]
       IN  /\ tags' = tags \ {t}
           /\ p_log' = Append(p_log, LogEntry("tag -d", t, 0))
    /\ p_pc' = "remote"
    /\ p_msg' = "Deleting tag"
    /\ UNCHANGED <<remote_tags, p_dry_run, tags_to_delete, p_idx, p_exit, p_tags0>>
    /\ UNCHANGED resolverVars
    /\ UNCHANGED parserVars

\* Line 111: run_git(["tag", "-d", t]) fails
PrunerDeleteLocalFails(rc) ==
    /\ p_pc = "local"
    /\ p_log' = Append(p_log, LogEntry("tag -d", tags_to_delete[p_idx], rc))
    /\ run_git_failure("tag -d", rc)
    /\ UNCHANGED <<tags, remote_tags, p_dry_run, tags_to_delete, p_tags0>>
    /\ UNCHANGED resolverVars
    /\ UNCHANGED parserVars

\* Line 112: run_git(["push", "--delete", "origin", t]) succeeds; the loop
\* goes to the next tag or main ends
PrunerDeleteRemote ==
    /\ p_pc = "remote"
    /\ LET t == tags_to_delete[p_idx]
       IN  /\ remote_tags' = remote_tags \ {t}
           /\ p_log' = Append(p_log, LogEntry("push --delete origin", t, 0))
    /\ IF p_idx = Len(tags_to_delete)
       THEN /\ p_pc' = "done" /\ p_exit' = Exited(0)
            /\ p_msg' = "Done. Deleted dev tags outside the two latest official releases (local and origin)."
       ELSE /\ p_pc' = "local" /\ p_exit' = p_exit
            /\ p_msg' = p_msg
    /\ p_idx' = p_idx + 1
    /\ UNCHANGED <<tags, p_dry_run, tags_to_delete, p_tags0>>
    /\ UNCHANGED resolverVars
    /\ UNCHANGED parserVars

\* Line 112: run_git(["push", "--delete", "origin", t]) fails
PrunerDeleteRemoteFails(rc) ==
    /\ p_pc = "remote"
    /\ p_log' = Append(p_log,
                       LogEntry("push --delete origin", tags_to_delete[p_idx], rc))
    /\ run_git_failure("push --delete origin", rc)
    /\ UNCHANGED <<tags, remote_tags, p_dry_run, tags_to_delete, p_tags0>>
    /\ UNCHANGED resolverVars
    /\ UNCHANGED parserVars

\* The Resolver and the Pruner run as exclusive jobs: the Resolver starts
\* only while no Pruner run is under way.
PrunerQuiet == p_pc \in {"idle", "done"}

\* Lines 27-29: "git tag --sort=v:refname" fails
ResolverGitFails ==
    /\ r_pc = "idle" /\ PrunerQuiet
    /\ r_pc' = "done"
    /\ r_exit' = Exited(1)
    /\ r_stdout' = <<>>
    /\ UNCHANGED <<r_latest_tag, r_envfile, r_tags0>>
    /\ UNCHANGED <<tags, remote_tags>>
    /\ UNCHANGED prunerVars
    /\ UNCHANGED parserVars

Line(key, value) == <<key, value>>

\* A mutant of output_lines: the two variables are written whether or not
\* the script got that far.
output_lines_Always(res) ==
    <<Line("NEXT_DEV_TAG", IF res.status = "ok" THEN res.next_dev_tag ELSE None),
      Line("LATEST_RELEASE_TAG",
           IF res.status = "ok" THEN res.latest_official_tag ELSE None)>>

\* Lines 68-74: the two variables, written only by a run that got that far
output_lines(res) ==
    IF res.status = "ok"
    THEN <<Line("NEXT_DEV_TAG", res.next_dev_tag),
           Line("LATEST_RELEASE_TAG", res.latest_official_tag)>>
    ELSE <<>>

\* The whole script, lines 31-74, the git call having succeeded; github_env
\* tells whether GITHUB_ENV is set.
ResolverRun(github_env) ==
    /\ r_pc = "idle" /\ PrunerQuiet
    /\ r_pc' = "done"
    /\ r_tags0' = get_git_version_tags(tags)
    /\ \E res \in {Resolve(tags)} :
           /\ r_exit' = IF res.status = "ok" THEN Exited(0) ELSE Exited(1)
           /\ r_latest_tag' = IF res.status \in {"ok", "crash"}
                              THEN res.latest_tag ELSE None
           /\ r_stdout' =
                 (IF res.status = "no version tags"
                  THEN <<Line("Error", "No version tags found in repository!")>>
                  ELSE IF res.status = "no official tag"
                  THEN <<Line("Error",
                              "Latest official release tag (X.Y.Z) not found!")>>
                  ELSE <<Line("Latest release tag", res.latest_tag)>>)
                 \o (IF res.status = "ok"
                     THEN <<Line("Computed next dev tag", res.next_dev_tag)>>
                     ELSE <<>>)
                 \o output_lines(res)
           /\ r_envfile' = IF github_env
                           THEN r_envfile
                                \o (IF output_lines(res) = <<>> THEN <<>>
                                    ELSE <<output_lines(res)[2], output_lines(res)[1]>>)
                           ELSE r_envfile
    /\ UNCHANGED <<tags, remote_tags>>
    /\ UNCHANGED prunerVars
    /\ UNCHANGED parserVars

Next ==
    \/ \E dry_run \in BOOLEAN : PrunerStart(dry_run)
    \/ \E dry_run \in BOOLEAN, rc \in GitFailureCodes : PrunerListFails(dry_run, rc)
    \/ PrunerDeleteLocal
    \/ \E rc \in GitFailureCodes : PrunerDeleteLocalFails(rc)
    \/ PrunerDeleteRemote
    \/ \E rc \in GitFailureCodes : PrunerDeleteRemoteFails(rc)
    \/ \E github_env \in BOOLEAN : ResolverRun(github_env)
    \/ ResolverGitFails

Spec == Init /\ [][Next]_vars

-----------------------------------------------------------------------------
(* parse_tag on its own: strings of up to MaxTokens tokens are handed to it *)

InitParser ==
    /\ input = <<>>
    /\ parsed = NotParsed
    /\ tags = {}
    /\ remote_tags = {}
    /\ p_pc = "idle"
    /\ p_dry_run = FALSE
    /\ tags_to_delete = <<>>
    /\ p_idx = 0
    /\ p_exit = None
    /\ p_msg = ""
    /\ p_tags0 = {}
    /\ p_log = <<>>
    /\ r_pc = "idle"
    /\ r_exit = None
    /\ r_latest_tag = None
    /\ r_stdout = <<>>
    /\ r_envfile = <<>>
    /\ r_tags0 = <<>>

\* p_idx counts the tokens of input
ParseLonger(token) ==
    /\ p_idx < MaxTokens
    /\ p_idx' = p_idx + 1
    /\ input' = input \o token
    /\ parsed' = parse_tag(input \o token)
    /\ UNCHANGED <<tags, remote_tags, p_pc, p_dry_run, tags_to_delete, p_exit,
                   p_msg, p_tags0, p_log>>
    /\ UNCHANGED resolverVars

NextParser == \E token \in Tokens : ParseLonger(token)

SpecParser == InitParser /\ [][NextParser]_vars

-----------------------------------------------------------------------------
(* Vocabulary of the properties, stated on the shape of a string and not   *)
(* through the scripts' regular expressions                                *)

AllDigits(s) == s # <<>> /\ \A i \in 1..Len(s) : s[i] \in Digits

\* The number a run of decimal digits denotes
RECURSIVE Pow10(_)
Pow10(n) == IF n = 0 THEN 1 ELSE 10 * Pow10(n - 1)
RECURSIVE ValueFrom(_, _)
ValueFrom(s, i) ==
    IF i > Len(s) THEN 0
    ELSE DigitVal(s[i]) * Pow10(Len(s) - i) + ValueFrom(s, i + 1)
Value(s) == ValueFrom(s, 1)

\* s has the form D.D.D: digits and exactly two dots, each field non-empty
IsOfficialShape(s) ==
    /\ s # <<>>
    /\ \A i \in 1..Len(s) : s[i] \in Digits \cup {"."}
    /\ Cardinality({i \in 1..Len(s) : s[i] = "."}) = 2
    /\ s[1] # "." /\ s[Len(s)] # "."
    /\ \A i \in 1..(Len(s) - 1) : ~(s[i] = "." /\ s[i + 1] = ".")

\* The position of the "-" of a string of the form D.D.D-dev.D, if it is one
DevDash(s) ==
    {k \in 1..Len(s) :
        /\ s[k] = "-"
        /\ k + 4 <= Len(s)
        /\ SubSeq(s, k, k + 4) = <<"-", "d", "e", "v", ".">>
        /\ AllDigits(SubSeq(s, k + 5, Len(s)))
        /\ IsOfficialShape(SubSeq(s, 1, k - 1))}

\* s has the form D.D.D-dev.D
IsDevShape(s) == DevDash(s) # {}

\* The D.D.D a dev tag starts with
BaseOf(s) == LET k == CHOOSE x \in DevDash(s) : TRUE IN SubSeq(s, 1, k - 1)

\* The dev number of a dev tag
DevNumOf(s) ==
    LET k == CHOOSE x \in DevDash(s) : TRUE IN Value(SubSeq(s, k + 5, Len(s)))

\* (major, minor, patch) of a string of the form D.D.D
KeyOfOfficial(s) ==
    LET i == CHOOSE x \in 1..Len(s) : s[x] = "." /\ AllDigits(SubSeq(s, 1, x - 1))
        j == CHOOSE y \in (i + 1)..Len(s) :
                 s[y] = "." /\ AllDigits(SubSeq(s, i + 1, y - 1))
    IN  <<Value(SubSeq(s, 1, i - 1)), Value(SubSeq(s, i + 1, j - 1)),
          Value(SubSeq(s, j + 1, Len(s)))>>

\* The lineage of an official or dev tag
LineageOf(s) == IF IsDevShape(s) THEN KeyOfOfficial(BaseOf(s)) ELSE KeyOfOfficial(s)

OfficialTagsOf(S) == {t \in S : IsOfficialShape(t)}
DevTagsOf(S) == {t \in S : IsDevShape(t)}
HasOfficial(S) == OfficialTagsOf(S) # {}

\* Numeric tuple order of lineages (every field is below 100 here)
Rank(key) == key[1] * 10000 + key[2] * 100 + key[3]

\* The two greatest official lineages of S (all of them when fewer than two)
ProtectedLineages(S) ==
    LET keys == {KeyOfOfficial(t) : t \in OfficialTagsOf(S)}
    IN  {k \in keys : Cardinality({h \in keys : Rank(h) > Rank(k)}) < 2}

\* The Pruner got its tag listing
PrunerListed == p_pc # "idle" /\ p_msg # "git tag --list failed"

\* The Resolver got its tag listing
ResolverListed == r_pc = "done" /\ r_stdout # <<>>

\* The values of a KEY=VALUE variable among lines
ValuesOf(lines, key) == {l[2] : l \in {x \in Range(lines) : x[1] = key}}

\* The last version-like tag and the last official tag the Resolver read
LastOverall == r_tags0[Len(r_tags0)]
LastOfficial ==
    LET idx == {i \in 1..Len(r_tags0) : IsOfficialShape(r_tags0[i])}
    IN  r_tags0[CHOOSE i \in idx : \A k \in idx : k <= i]

-----------------------------------------------------------------------------
(* Properties *)

\* C1: whenever the Pruner has listed a tag set with at least one official
\* tag, the tags it marks for deletion are exactly the dev tags whose lineage
\* is not one of the two numerically greatest official lineages.
C1_MarksExactlyUnprotectedDevTags ==
    (PrunerListed /\ HasOfficial(p_tags0)) =>
        Range(tags_to_delete) =
            {t \in DevTagsOf(p_tags0) : LineageOf(t) \notin ProtectedLineages(p_tags0)}

\* C1 witness: three official lineages, of which the numerically lowest is
\* not the lowest in byte order, and a dev tag of it is marked.
C1_Witness ==
    /\ PrunerListed
    /\ Cardinality(OfficialTagsOf(p_tags0)) = 3
    /\ tags_to_delete # <<>>

\* C2 (as claimed): the correction step replaces the last version-like tag
\* by the latest official tag exactly when that last tag is the latest
\* official tag itself or a dev tag whose base version is the latest
\* official version; otherwise the latest tag stays the last tag.
C2_CorrectionOnlyForSameBase ==
    (ResolverListed /\ r_latest_tag # None) =>
        r_latest_tag =
            IF \/ LastOverall = LastOfficial
               \/ /\ IsDevShape(LastOverall)
                  /\ LineageOf(LastOverall) = LineageOf(LastOfficial)
            THEN LastOfficial
            ELSE LastOverall

\* C3 (as claimed): on every tag list with an official tag the Resolver ends
\* with a next dev tag: the dev number plus one for a latest tag with a
\* -dev.N suffix, and otherwise the latest tag is a bare official release
\* and the next tag is its patch plus one with -dev.1.
C3_NextDevTagComputed ==
    (ResolverListed /\ HasOfficial(tags)) =>
        /\ r_exit = Exited(0)
        /\ r_latest_tag # None
        /\ IF IsDevShape(r_latest_tag)
           THEN ValuesOf(r_stdout, "NEXT_DEV_TAG") =
                    {FormatDev(LineageOf(r_latest_tag), DevNumOf(r_latest_tag) + 1)}
           ELSE /\ IsOfficialShape(r_latest_tag)
                /\ LET k == KeyOfOfficial(r_latest_tag)
                   IN  ValuesOf(r_stdout, "NEXT_DEV_TAG") =
                           {FormatDev(<<k[1], k[2], k[3] + 1>>, 1)}

\* C4: the deletion subprocesses run in the order local, remote, tag after
\* tag of the marked list; a failing one is the last one ever run and its
\* exit code is the run's; what was deleted before stays deleted.
C4_FailFastSequentialDeletion ==
    /\ \A i \in 1..Len(p_log) :
          /\ p_log[i].tag = tags_to_delete[(i + 1) \div 2]
          /\ p_log[i].op = IF i % 2 = 1 THEN "tag -d" ELSE "push --delete origin"
          /\ i > 1 => p_log[i - 1].rc = 0
          /\ p_log[i].rc # 0 =>
                 /\ i = Len(p_log)
                 /\ p_pc = "done"
                 /\ p_exit = Exited(p_log[i].rc)
                 /\ p_exit # Exited(0)
          /\ (p_log[i].rc = 0 /\ p_log[i].op = "tag -d") =>
                 p_log[i].tag \notin tags
          /\ (p_log[i].rc = 0 /\ p_log[i].op = "push --delete origin") =>
                 p_log[i].tag \notin remote_tags
    /\ p_tags0 \ tags =
           {p_log[i].tag : i \in {k \in 1..Len(p_log) :
                                      p_log[k].rc = 0 /\ p_log[k].op = "tag -d"}}
    /\ p_tags0 \ remote_tags =
           {p_log[i].tag : i \in {k \in 1..Len(p_log) :
                  p_log[k].rc = 0 /\ p_log[k].op = "push --delete origin"}}
    /\ (p_pc = "done" /\ p_exit = Exited(0) /\ p_log # <<>>) =>
           Len(p_log) = 2 * Len(tags_to_delete)

\* C4 witness: a deletion fails after an earlier tag was deleted locally and
\* on origin.
C4_Witness ==
    /\ Len(p_log) >= 3
    /\ p_log[Len(p_log)].rc # 0
    /\ p_pc = "done"

\* C5 (as claimed): a deletion is attempted only with dry-run off and an
\* official tag present; every run with dry-run on, or with no official
\* tag, leaves both tag sets unchanged and ends with exit code 0.
C5_DryRunOrNoOfficialExitsZero ==
    /\ p_log # <<>> => (~p_dry_run /\ HasOfficial(p_tags0))
    /\ (p_pc = "done" /\ (p_dry_run \/ ~HasOfficial(p_tags0))) =>
           /\ tags = p_tags0
           /\ remote_tags = p_tags0
           /\ p_exit = Exited(0)

\* C5 (amended): as claimed, except that a run whose tag listing fails ends
\* with git's non-zero exit code (both tag sets still unchanged).
C5_DryRunOrNoOfficialChangesNothing ==
    /\ p_log # <<>> => (~p_dry_run /\ HasOfficial(p_tags0))
    /\ (p_pc = "done" /\ (p_dry_run \/ ~HasOfficial(p_tags0))) =>
           /\ tags = p_tags0
           /\ remote_tags = p_tags0
           /\ p_log = <<>>
           /\ IF PrunerListed THEN p_exit = Exited(0)
              ELSE p_exit \in {Exited(rc) : rc \in GitFailureCodes}

\* C5 witness: a dry run that reported tags to delete and ended.
C5_Witness ==
    /\ p_pc = "done" /\ p_dry_run /\ PrunerListed
    /\ tags_to_delete # <<>>
    /\ p_exit = Exited(0)

\* C6 (as claimed): the Resolver's version-like list holds exactly the tags
\* of the form D.D.D or D.D.D-dev.D, the ones the Pruner's parser accepts.
C6_ResolverListIsStrict ==
    ResolverListed =>
        /\ Range(r_tags0) = {t \in tags : IsOfficialShape(t) \/ IsDevShape(t)}
        /\ Range(r_tags0) = {t \in tags : parse_tag(t) # None}

\* C7: with no official tag among the tags (none version-like, or dev tags
\* only) the Resolver exits non-zero and writes neither variable, to stdout
\* or to the GITHUB_ENV file.
C7_NoOfficialTagIsFatal ==
    (r_pc = "done" /\ ~HasOfficial(tags)) =>
        /\ r_exit # Exited(0)
        /\ ValuesOf(r_stdout, "NEXT_DEV_TAG") = {}
        /\ ValuesOf(r_stdout, "LATEST_RELEASE_TAG") = {}
        /\ r_envfile = <<>>

\* C7 witness: the Resolver ended on a tag list with dev tags and no official
\* tag.
C7_Witness ==
    /\ ResolverListed
    /\ ~HasOfficial(tags)
    /\ DevTagsOf(tags) # {}

\* C8: parse_tag returns the three numbers and None for a string D.D.D, the
\* three numbers and the dev number for a string D.D.D-dev.D, and None
\* (rejection) for every other string.
C8_ParserIsFullMatch ==
    parsed # NotParsed =>
        parsed =
            IF IsOfficialShape(input)
            THEN KeyOfOfficial(input) \o <<None>>
            ELSE IF IsDevShape(input)
            THEN LineageOf(input) \o <<Some(DevNumOf(input))>>
            ELSE None

\* C8 witness: a dev tag with a two-digit field was parsed.
C8_Witness ==
    /\ parsed # NotParsed
    /\ IsDevShape(input)
    /\ \E i \in 1..3 : parsed[i] = 20

\* C9 (as claimed): the next dev tag of a successful Resolver run is not one
\* of the existing tags.
C9_NextDevTagIsFresh ==
    (ResolverListed /\ r_exit = Exited(0)) =>
        ValuesOf(r_stdout, "NEXT_DEV_TAG") \cap tags = {}

\* C10 (as claimed): after a successful non-dry-run Pruner run on a tag set
\* with an official tag, the Resolver's two variables are the ones it
\* computes on the tag set before pruning.
C10_PruningKeepsResolverOutput ==
    (/\ p_pc = "done" /\ p_exit = Exited(0) /\ ~p_dry_run /\ PrunerListed
     /\ HasOfficial(p_tags0)
     /\ ResolverListed) =>
        \A key \in {"NEXT_DEV_TAG", "LATEST_RELEASE_TAG"} :
            ValuesOf(r_stdout, key) = ValuesOf(output_lines(Resolve(p_tags0)), key)

=============================================================================
